---- MODULE Spec2Model ----
(***************************************************************************)
(* Model of lib/utils/package-manager.py: the PackageManager class (stale   *)
(* lock inspection and release, APT cache refresh, install, fix-broken,     *)
(* dependency resolution, upgradable listing) and the exit codes of main(). *)
(*                                                                          *)
(* Every external command (subprocess.run) is one step whose outcome is     *)
(* chosen nondeterministically.  The operating system around the program    *)
(* is modelled by the lock files, their PID sidecars and the process table. *)
(***************************************************************************)
EXTENDS Integers, Sequences, FiniteSets, TLC

\* ------------------------------------------------------------------ bounds
\* PIDs that can appear in a sidecar file or in the process table: 1..MaxPid
MaxPid == 2
\* number of apt-get update runs made by one PackageManager instance
MaxRefresh == 3
\* package names that can be requested: 1..MaxPkg
MaxPkg == 2
\* lines of output of a listing command (apt-cache depends, apt-cache policy)
MaxLines == 3
\* repository URLs that can be configured: 1..MaxUrl
MaxUrl == 2

\* --------------------------------------------------------- program constants
LOCK_FILES == << "/var/lib/dpkg/lock",
                 "/var/lib/dpkg/lock-frontend",
                 "/var/cache/apt/archives/lock" >>

LockPaths == { LOCK_FILES[i] : i \in 1..Len(LOCK_FILES) }

ROOT_UID == 0
\* an unprivileged effective uid
USER_UID == 1000

Pids == 1..MaxPid
Packages == 1..MaxPkg

\* What open(f"{lock_file}.lock").read().strip() can yield:
\*   absent     - open raises FileNotFoundError
\*   unreadable - open raises PermissionError
\*   empty      - the stripped content is ""
\*   nondigit   - the stripped content is non-empty and not all digits
\*   digits     - the stripped content is the decimal writing of pid
SidecarKinds == {"absent", "unreadable", "empty", "nondigit", "digits"}
Sidecar(k, p) == [kind |-> k, pid |-> p]
SidecarValues ==
    { Sidecar(k, 0) : k \in SidecarKinds \ {"digits"} }
        \cup { Sidecar("digits", p) : p \in Pids }

VARIABLES
    lockExists,         \* lock path -> os.path.exists(lock_file)
    sidecar,            \* lock path -> content of f"{lock_file}.lock"
    alive,              \* PIDs for which psutil.Process(pid) succeeds
    pkgdb,              \* what the APT listing commands print on this host
    apt_cache_updated,  \* PackageManager.apt_cache_updated
    pc,                 \* position of the running operation, "idle" or "done"
    op,                 \* the operation running or just finished
    arg,                \* its package argument (0 when it takes none)
    euid,               \* os.geteuid() of the process
    stale_files,        \* release_stale_locks: the list returned by the inspection
    idx,                \* release_stale_locks: index of the next path to remove
    locals,             \* verify_package, check_repository_connectivity: locals
    log,                \* commands run by the current request, in order
    printed,            \* what the current request wrote to sys.stderr
    refreshLog,         \* outcome of every apt-get update of this instance
    everForced,         \* update_cache(force=True) was called on this instance
    result              \* what the finished operation returned, and main()'s exit code

vars == << lockExists, sidecar, alive, pkgdb, apt_cache_updated, pc, op, arg, euid,
           stale_files, idx, locals, log, printed, refreshLog, everForced, result >>

osVars == << lockExists, sidecar, alive, pkgdb >>
callVars == << pc, op, arg, euid, stale_files, idx, locals, log, printed, result >>
cacheVars == << apt_cache_updated, refreshLog, everForced >>

\* ----------------------------------------------------------- output text
\* A piece of text: a literal of the program, the stdout / stderr that the
\* n-th command of the request produced, or (stream "arg") an argument value.
Lit(s) == [stream |-> "lit", cmd |-> s, n |-> 0]
Out(stream, c, n) == [stream |-> stream, cmd |-> c, n |-> n]

\* subprocess.run(cmd, check=True): one entry of the request's command log
Cmd(c, a, ok) == [cmd |-> c, arg |-> a, ok |-> ok]

InSeq(x, s) == \E i \in 1..Len(s) : s[i] = x

\* What an operation returned: flag says whether it returns a bool at all
\* (success, or has_stale_locks for check-lock), output is the returned text,
\* data the returned list, exit the exit code main() derives from them.
NoResult == [op |-> "none", flag |-> FALSE, success |-> FALSE, output |-> << >>,
             data |-> << >>, exit |-> 0]

\* the locals of an operation that has none
NoLocals == [of |-> "none"]

\* ------------------------------------------------------- APT listing output
\* One line of `apt-cache depends --recurse` output:
\*   indent     - the line starts with a space
\*   tag        - "Depends:", "PreDepends:" or "" (no relationship tag)
\*   name       - the package named on the line, 0 when nothing follows the tag
\*   constraint - a parenthesized version constraint follows the name
DepLine(i, t, n, c) == [indent |-> i, tag |-> t, name |-> n, constraint |-> c]

\* the sequences of at most n elements of S
SeqsUpTo(S, n) == UNION { [1..k -> S] : k \in 0..n }

\* The lines `apt-cache depends --recurse --no-recommends ...` prints: the
\* unindented name of a package, below it one indented line per Depends: or
\* PreDepends: relationship, and indented untagged lines naming the providers
\* of a virtual package.
DependsLines ==
    { DepLine(FALSE, "", 1, FALSE), DepLine(TRUE, "", 1, FALSE),
      DepLine(TRUE, "PreDepends:", 1, FALSE) }
        \cup { DepLine(TRUE, "Depends:", n, c) : n \in Packages, c \in BOOLEAN }

DependsListings == SeqsUpTo(DependsLines, MaxLines)

\* One line of `apt list --upgradable` output:
\*   kind - "Listing" (the "Listing..." header), "upgradable" (a line of the
\*          form name/suite available arch [upgradable from: current]),
\*          "slash" (another line with a "/"), "plain" (a line without "/")
UpgLine(k, n) == [kind |-> k, name |-> n]

\* The package database of the host for package n: n depends on the next
\* package (listed with and without a version constraint) and on itself.
NextPkg(n) == IF n = MaxPkg THEN 1 ELSE n + 1

SampleDepends(n) ==
    << DepLine(FALSE, "", n, FALSE),
       DepLine(TRUE, "Depends:", NextPkg(n), TRUE),
       DepLine(TRUE, "Depends:", n, FALSE),
       DepLine(TRUE, "Depends:", NextPkg(n), FALSE) >>

SampleUpgradable ==
    << UpgLine("Listing", 0), UpgLine("upgradable", 1), UpgLine("slash", MaxPkg) >>

\* The lines `apt-cache depends <package>` prints: the unindented name of the
\* package and one indented line per relationship, the name of the related
\* package after the tag.
ImmediateLines ==
    { DepLine(FALSE, "", 1, FALSE), DepLine(TRUE, "PreDepends:", 1, FALSE) }
        \cup { DepLine(TRUE, "Depends:", n, FALSE) : n \in Packages }

ImmediateListings == SeqsUpTo(ImmediateLines, MaxLines)

SampleImmediate(n) ==
    << DepLine(FALSE, "", n, FALSE), DepLine(TRUE, "Depends:", NextPkg(n), FALSE) >>

\* What `dpkg -s <package>` prints when it exits 0: a Version: line or none,
\* and the text of the Status: line ("" when there is no such line).
StatusTexts == { "install ok installed", "deinstall ok config-files", "" }
StatusOutputs == [version : BOOLEAN, status : StatusTexts]

\* One line of `apt-cache policy` output:
\*   kind - "url" (the stripped line begins with the URL of a repository),
\*          "prio" (a pin priority, then the URL), "other" (no URL)
\*   url  - the URL on the line, 0 when there is none
Urls == 1..MaxUrl
PolicyLine(k, u) == [kind |-> k, url |-> u]
PolicyLines ==
    { PolicyLine("other", 0) }
        \cup { PolicyLine(k, u) : k \in {"url", "prio"}, u \in Urls }

PolicyListings == SeqsUpTo(PolicyLines, MaxLines)

SamplePolicy == << PolicyLine("other", 0), PolicyLine("url", 1) >>

\* One line of `apt-cache show <package>` output: "key: value", or a line
\* without a colon (key "").  The command prints one record per available
\* version, so a key can come twice.
ShowLine(k, v) == [key |-> k, value |-> v]

SampleShow(n) ==
    << ShowLine("Package", "name"), ShowLine("Version", "new"), ShowLine("", ""),
       ShowLine("Package", "name"), ShowLine("Version", "old") >>

SamplePkgDb ==
    [depends |-> [n \in Packages |-> SampleDepends(n)],
     immediate |-> [n \in Packages |-> SampleImmediate(n)],
     policy |-> SamplePolicy,
     show |-> [n \in Packages |-> SampleShow(n)],
     upgradable |-> SampleUpgradable]

\* ------------------------------------------------------------ lock inspector
\* psutil.Process(int(pid)) does not raise NoSuchProcess
ProcessExists(pid, live) == pid \in live

\* The body of the for loop of check_stale_lock for one lock file: TRUE when
\* the path is appended to stale_locks.
LockIsStale_SkipLiveness(lock_file, exists, side, live) ==
    /\ exists[lock_file]
    /\ side[lock_file].kind = "digits"

LockIsStale(lock_file, exists, side, live) ==
    IF ~exists[lock_file]
    THEN FALSE                                       \* continue
    ELSE CASE side[lock_file].kind = "absent"     -> FALSE   \* FileNotFoundError
           [] side[lock_file].kind = "unreadable" -> FALSE   \* PermissionError
           [] side[lock_file].kind = "empty"      -> FALSE   \* not pid
           [] side[lock_file].kind = "nondigit"   -> FALSE   \* not pid.isdigit()
           [] side[lock_file].kind = "digits"     ->
                ~ProcessExists(side[lock_file].pid, live)    \* NoSuchProcess

RECURSIVE StaleLoop(_, _, _, _, _)
StaleLoop(i, exists, side, live, stale_locks) ==
    IF i > Len(LOCK_FILES)
    THEN stale_locks
    ELSE StaleLoop(i + 1, exists, side, live,
                   IF LockIsStale(LOCK_FILES[i], exists, side, live)
                   THEN Append(stale_locks, LOCK_FILES[i])
                   ELSE stale_locks)

\* check_stale_lock() -> (has_stale_locks, stale_files)
check_stale_lock_NeverStale(exists, side, live) ==
    << FALSE, StaleLoop(1, exists, side, live, << >>) >>

check_stale_lock(exists, side, live) ==
    LET stale_locks == StaleLoop(1, exists, side, live, << >>)
    IN  << Len(stale_locks) > 0, stale_locks >>

\* main(): exit code of each command, from what the operation returned
MainExit(command, success, data) ==
    CASE command = "check-lock"      -> IF success THEN 1 ELSE 0
      [] command = "resolve-deps"    -> 0
      [] command = "list-upgradable" -> 0
      [] command = "update-cache"    -> 0      \* a method, not a command of main()
      [] command = "verify"          -> IF data.installed THEN 0 ELSE 1
      [] command = "check-repos"     -> IF data.all_accessible THEN 0 ELSE 1
      [] command = "info"            -> IF ~data.none /\ data.info # {} THEN 0 ELSE 1
      [] OTHER                       -> IF success THEN 0 ELSE 1

Finish(command, success, output, data) ==
    /\ pc' = "done"
    /\ result' = [op |-> command, flag |-> TRUE, success |-> success,
                  output |-> output, data |-> data,
                  exit |-> MainExit(command, success, data)]

\* an operation that returns a list and no success flag
FinishList(command, data) ==
    /\ pc' = "done"
    /\ result' = [op |-> command, flag |-> FALSE, success |-> FALSE,
                  output |-> << >>, data |-> data,
                  exit |-> MainExit(command, FALSE, data)]

\* A request starts on an idle instance.
Begin(command, a) ==
    /\ pc = "idle"
    /\ op' = command
    /\ arg' = a
    /\ log' = << >>

\* --------------------------------------------------------------- APT cache
\* update_cache, lines 242-243: FALSE when the call returns without running
\* apt-get update
NeedsRefresh_Always(updated, force) == TRUE

NeedsRefresh(updated, force) == ~(updated /\ ~force)

\* A request that would run apt-get update starts only while the instance has
\* run it fewer than MaxRefresh times.
CanRefresh(force) ==
    NeedsRefresh(apt_cache_updated, force) => Len(refreshLog) < MaxRefresh

\* update_cache(force), lines 240-253, where ok is the outcome of apt-get
\* update should it run
UpdateCacheBody(force, ok) ==
    IF NeedsRefresh(apt_cache_updated, force)
    THEN /\ log' = Append(log, Cmd("apt-get update", 0, ok))
         /\ refreshLog' = Append(refreshLog, ok)
         /\ apt_cache_updated' = IF ok THEN TRUE ELSE apt_cache_updated
         /\ printed' = IF ok THEN printed
                       ELSE printed \o << Lit("Error updating APT cache"),
                                          Out("stderr", "apt-get update",
                                              Len(log) + 1) >>
    ELSE UNCHANGED << log, printed, refreshLog, apt_cache_updated >>

\* the bool update_cache returns
UpdateCacheReturns(force, ok) ==
    IF NeedsRefresh(apt_cache_updated, force) THEN ok ELSE TRUE

\* update_cache(force) called on the instance by a user of the class
UpdateCacheCall ==
    \E force \in BOOLEAN :
        /\ Begin("update-cache", 0)
        /\ CanRefresh(force)
        /\ everForced' = (everForced \/ force)
        /\ pc' = IF force THEN "upd_forced" ELSE "upd_plain"
        /\ printed' = << >>
        /\ UNCHANGED << osVars, apt_cache_updated, refreshLog, euid, locals, stale_files,
                        idx, result >>

UpdateCacheRun ==
    /\ pc \in {"upd_forced", "upd_plain"}
    /\ \E ok \in BOOLEAN :
        /\ UpdateCacheBody(pc = "upd_forced", ok)
        /\ Finish("update-cache", UpdateCacheReturns(pc = "upd_forced", ok),
                  << >>, << >>)
    /\ UNCHANGED << osVars, everForced, op, arg, euid, locals, stale_files, idx >>

\* ------------------------------------------------------------------ install
\* install_package, line 264: the first statement is self.update_cache()
InstallFirstStep_SkipRefresh == "inst_run"

InstallFirstStep == "inst_update"

InstallCall ==
    \E package_name \in Packages :
        /\ Begin("install", package_name)
        /\ CanRefresh(FALSE)
        /\ pc' = InstallFirstStep
        /\ printed' = << >>
        /\ UNCHANGED << osVars, cacheVars, euid, locals, stale_files, idx, result >>

\* install_package, line 264: self.update_cache()
InstallUpdateCache ==
    /\ pc = "inst_update"
    /\ \E ok \in BOOLEAN : UpdateCacheBody(FALSE, ok)
    /\ pc' = "inst_run"
    /\ UNCHANGED << osVars, everForced, op, arg, euid, locals, stale_files, idx, result >>

\* install_package, lines 280-282: what follows a failed apt-get install that
\* was the n-th command of the request
InstallOnFailure_Retry(n) == IF n < 4 THEN "retry" ELSE "fail"

InstallOnFailure(n) == "fail"

\* install_package, lines 281-282: the message of a failed install of
\* package_name whose apt-get install was the n-th command of the request
InstallErrorMsg_Bare(package_name, n) ==
    << Lit("Failed to install"), Out("arg", "package_name", package_name) >>

InstallErrorMsg(package_name, n) ==
    << Lit("Failed to install"), Out("arg", "package_name", package_name),
       Out("stderr", "apt-get install", n) >>

\* install_package, lines 266-282: apt-get install -y <package_name>
InstallRun ==
    /\ pc = "inst_run"
    /\ \E ok \in BOOLEAN :
        LET n == Len(log) + 1
        IN  /\ log' = Append(log, Cmd("apt-get install", arg, ok))
            /\ UNCHANGED printed
            /\ IF ok
               THEN Finish("install", TRUE, << Out("stdout", "apt-get install", n) >>,
                           << >>)
               ELSE IF InstallOnFailure(n) = "retry"
               THEN UNCHANGED << pc, result >>
               ELSE Finish("install", FALSE, InstallErrorMsg(arg, n), << >>)
    /\ UNCHANGED << osVars, cacheVars, op, arg, euid, locals, stale_files, idx >>

\* --------------------------------------------------------------- fix-broken
FixBrokenCall ==
    /\ Begin("fix-broken", 0)
    /\ pc' = "fix_first"
    /\ printed' = << >>
    /\ UNCHANGED << osVars, cacheVars, euid, locals, stale_files, idx, result >>

\* fix_broken_dependencies, lines 204-216: the first apt-get --fix-broken
FixBrokenFirst ==
    /\ pc = "fix_first"
    /\ \E ok \in BOOLEAN :
        LET n == Len(log) + 1
        IN  /\ log' = Append(log, Cmd("apt-get --fix-broken", 0, ok))
            /\ UNCHANGED printed
            /\ IF ok
               THEN Finish("fix-broken", TRUE,
                           << Out("stdout", "apt-get --fix-broken", n) >>, << >>)
               ELSE pc' = "fix_dpkg" /\ UNCHANGED result
    /\ UNCHANGED << osVars, cacheVars, op, arg, euid, locals, stale_files, idx >>

\* fix_broken_dependencies, lines 237-238: the message built from the first
\* failure e and the second failure e2
FixErrorMsg_DropFirst(e, e2) == << Lit("Failed to fix dependencies"), e2 >>

FixErrorMsg(e, e2) == << Lit("Failed to fix dependencies"), e, e2 >>

\* stderr of the first fix-broken attempt (e of line 216)
FirstFixStderr == Out("stderr", "apt-get --fix-broken", 1)

\* fix_broken_dependencies, lines 218-224 and 237: dpkg --configure -a runs
\* with check=True inside the try block whose handler returns the failure
FixAfterReconfigure_Always(ok) == "retry"

FixAfterReconfigure(ok) == IF ok THEN "retry" ELSE "fail"

FixBrokenReconfigure ==
    /\ pc = "fix_dpkg"
    /\ \E ok \in BOOLEAN :
        LET n == Len(log) + 1
        IN  /\ log' = Append(log, Cmd("dpkg --configure -a", 0, ok))
            /\ UNCHANGED printed
            /\ IF FixAfterReconfigure(ok) = "retry"
               THEN pc' = "fix_retry" /\ UNCHANGED result
               ELSE Finish("fix-broken", FALSE,
                           FixErrorMsg(FirstFixStderr,
                                       Out("stderr", "dpkg --configure -a", n)),
                           << >>)
    /\ UNCHANGED << osVars, cacheVars, op, arg, euid, locals, stale_files, idx >>

\* fix_broken_dependencies, lines 237-238: what follows a failed second
\* apt-get --fix-broken that was the n-th command of the request
FixOnRetryFailure_Again(n) == IF n < 5 THEN "again" ELSE "fail"

FixOnRetryFailure(n) == "fail"

\* fix_broken_dependencies, lines 226-238: the second apt-get --fix-broken
FixBrokenRetry ==
    /\ pc = "fix_retry"
    /\ \E ok \in BOOLEAN :
        LET n == Len(log) + 1
        IN  /\ log' = Append(log, Cmd("apt-get --fix-broken", 0, ok))
            /\ UNCHANGED printed
            /\ IF ok
               THEN Finish("fix-broken", TRUE,
                           << Out("stdout", "apt-get --fix-broken", n) >>, << >>)
               ELSE IF FixOnRetryFailure(n) = "again"
               THEN pc' = "fix_dpkg" /\ UNCHANGED result
               ELSE Finish("fix-broken", FALSE,
                           FixErrorMsg(FirstFixStderr,
                                       Out("stderr", "apt-get --fix-broken", n)),
                           << >>)
    /\ UNCHANGED << osVars, cacheVars, op, arg, euid, locals, stale_files, idx >>

\* check-lock: has_stale, stale_files = pm.check_stale_lock()
CheckLock ==
    /\ Begin("check-lock", 0)
    /\ LET r == check_stale_lock(lockExists, sidecar, alive)
       IN  Finish("check-lock", r[1], << >>, r[2])
    /\ printed' = << >>
    /\ UNCHANGED << osVars, cacheVars, euid, locals, stale_files, idx >>

\* What release_stale_locks does after its inspection, lines 86-93.
ReleaseGate_NoEuid(has_stale, uid) ==
    IF ~has_stale THEN "nothing" ELSE "remove"

ReleaseGate_EuidFirst(has_stale, uid) ==
    IF uid # ROOT_UID THEN "denied"
    ELSE IF ~has_stale THEN "nothing"
    ELSE "remove"

ReleaseGate(has_stale, uid) ==
    IF ~has_stale THEN "nothing"
    ELSE IF uid # ROOT_UID THEN "denied"
    ELSE "remove"

\* release_stale_locks, lines 84-93: inspection and privilege check
ReleaseInspect ==
    \E uid \in {ROOT_UID, USER_UID} :
        /\ Begin("release-locks", 0)
        /\ euid' = uid
        /\ LET r == check_stale_lock(lockExists, sidecar, alive)
               g == ReleaseGate(r[1], uid)
           IN  /\ stale_files' = r[2]
               /\ idx' = 1
               /\ CASE g = "nothing" ->
                         /\ Finish("release-locks", TRUE, << >>, << >>)
                         /\ printed' = << >>
                    [] g = "denied"  ->
                         /\ Finish("release-locks", FALSE, << >>, << >>)
                         /\ printed' = << Lit("Error: Root privileges required") >>
                    [] g = "remove"  ->
                         /\ pc' = "rel_remove"
                         /\ printed' = << >>
                         /\ UNCHANGED result
        /\ UNCHANGED << osVars, cacheVars, locals >>

\* release_stale_locks, line 95: the path the i-th pass of the loop removes
ReleaseTarget_AllLocks(stale, i) == LOCK_FILES[i]

ReleaseTarget(stale, i) == stale[i]

\* release_stale_locks, lines 99-101: what follows an OSError of os.remove
ReleaseOnRemoveError_Continue == "continue"

ReleaseOnRemoveError == "abort"

\* release_stale_locks, lines 95-101: os.remove of the next stale path
ReleaseRemove ==
    /\ pc = "rel_remove"
    /\ idx <= Len(stale_files)
    /\ LET lock_file == ReleaseTarget(stale_files, idx)
           next == IF idx + 1 > Len(stale_files) THEN "rel_dpkg" ELSE "rel_remove"
       IN  \/ /\ lockExists[lock_file]               \* os.remove succeeds
              /\ lockExists' = [lockExists EXCEPT ![lock_file] = FALSE]
              /\ idx' = idx + 1
              /\ pc' = next
              /\ UNCHANGED << result, printed >>
           \/ /\ lockExists' = lockExists             \* OSError
              /\ printed' = Append(printed, Lit("Failed to release"))
              /\ IF ReleaseOnRemoveError = "abort"
                 THEN /\ idx' = idx
                      /\ Finish("release-locks", FALSE, << >>, << >>)
                 ELSE /\ idx' = idx + 1
                      /\ pc' = next
                      /\ UNCHANGED result
    /\ UNCHANGED << sidecar, alive, pkgdb, cacheVars, op, arg, euid, locals, stale_files, log >>

\* release_stale_locks, lines 112-115: the bool returned after dpkg
\* --configure -a ended with outcome ok
ReleaseAfterReconfigure_Propagate(ok) == ok

ReleaseAfterReconfigure(ok) == TRUE

\* release_stale_locks, lines 103-115: dpkg --configure -a, failure is a warning
ReleaseReconfigure ==
    /\ pc = "rel_dpkg"
    /\ \E ok \in BOOLEAN :
        /\ log' = Append(log, Cmd("dpkg --configure -a", 0, ok))
        /\ printed' = IF ok THEN printed
                      ELSE printed \o << Lit("Warning: dpkg --configure failed"),
                                         Out("stderr", "dpkg --configure -a",
                                             Len(log) + 1) >>
        /\ Finish("release-locks", ReleaseAfterReconfigure(ok), << >>, << >>)
    /\ UNCHANGED << osVars, cacheVars, op, arg, euid, locals, stale_files, idx >>

\* ------------------------------------------------------------- resolve-deps
\* The text of a dependency: a package name, followed or not by a
\* parenthesized version constraint.
DepText(n, c) == [name |-> n, constraint |-> c]

\* resolve_dependencies, line 399: re.sub(r"\s*\(.*\)", "", dep)
StripConstraint_Keep(dep) == dep

StripConstraint(dep) == DepText(dep.name, FALSE)

\* resolve_dependencies, lines 391-401: the loop body for one line, given the
\* dependencies collected so far
ResolveLine(line, dependencies) ==
    IF line.indent = FALSE /\ (line.tag # "" \/ line.name # 0)
    THEN dependencies                     \* non-blank, no leading space: continue
    ELSE IF line.tag \in {"Depends:", "PreDepends:"}   \* "Depends:" in line
    THEN LET dep == StripConstraint(DepText(line.name, line.constraint))
         IN  IF dep.name # 0 /\ ~InSeq(dep, dependencies)
             THEN Append(dependencies, dep)
             ELSE dependencies
    ELSE dependencies

RECURSIVE ResolveLoop(_, _, _)
ResolveLoop(stdout, i, dependencies) ==
    IF i > Len(stdout)
    THEN dependencies
    ELSE ResolveLoop(stdout, i + 1, ResolveLine(stdout[i], dependencies))

ResolveCall ==
    \E package_name \in Packages :
        /\ Begin("resolve-deps", package_name)
        /\ CanRefresh(FALSE)
        /\ pc' = "res_update"
        /\ printed' = << >>
        /\ UNCHANGED << osVars, cacheVars, euid, locals, stale_files, idx, result >>

\* resolve_dependencies, line 368: self.update_cache()
ResolveUpdateCache ==
    /\ pc = "res_update"
    /\ \E ok \in BOOLEAN : UpdateCacheBody(FALSE, ok)
    /\ pc' = "res_run"
    /\ UNCHANGED << osVars, everForced, op, arg, euid, locals, stale_files, idx, result >>

\* resolve_dependencies, lines 403-404: what is printed to sys.stderr when
\* apt-cache depends, the n-th command of the request, fails
ResolveErrorText_Silent(n) == << >>

ResolveErrorText(n) ==
    << Lit("Error resolving dependencies"), Out("stderr", "apt-cache depends", n) >>

\* resolve_dependencies, lines 370-406: apt-cache depends --recurse
ResolveRun ==
    /\ pc = "res_run"
    /\ \E ok \in BOOLEAN :
        /\ log' = Append(log, Cmd("apt-cache depends", arg, ok))
        /\ IF ok
           THEN /\ FinishList("resolve-deps",
                                 ResolveLoop(pkgdb.depends[arg], 1, << >>))
                /\ UNCHANGED printed
           ELSE /\ FinishList("resolve-deps", << >>)
                /\ printed' = printed \o ResolveErrorText(Len(log) + 1)
    /\ UNCHANGED << osVars, cacheVars, op, arg, euid, locals, stale_files, idx >>

\* ---------------------------------------------------------- list-upgradable
\* list_upgradable, lines 427-442: the loop body for one line
UpgradableLine(line, upgradable) ==
    IF line.kind = "plain" \/ line.kind = "Listing"
    THEN upgradable                                   \* continue
    ELSE IF line.kind = "upgradable"                  \* re.match succeeds
    THEN Append(upgradable, line.name)
    ELSE upgradable

RECURSIVE UpgradableLoop(_, _, _)
UpgradableLoop(stdout, i, upgradable) ==
    IF i > Len(stdout)
    THEN upgradable
    ELSE UpgradableLoop(stdout, i + 1, UpgradableLine(stdout[i], upgradable))

ListUpgradableCall ==
    /\ Begin("list-upgradable", 0)
    /\ CanRefresh(FALSE)
    /\ pc' = "upg_update"
    /\ printed' = << >>
    /\ UNCHANGED << osVars, cacheVars, euid, locals, stale_files, idx, result >>

\* list_upgradable, line 415: self.update_cache()
ListUpgradableUpdateCache ==
    /\ pc = "upg_update"
    /\ \E ok \in BOOLEAN : UpdateCacheBody(FALSE, ok)
    /\ pc' = "upg_run"
    /\ UNCHANGED << osVars, everForced, op, arg, euid, locals, stale_files, idx, result >>

\* list_upgradable, lines 417-447: apt list --upgradable
ListUpgradableRun ==
    /\ pc = "upg_run"
    /\ \E ok \in BOOLEAN :
        /\ log' = Append(log, Cmd("apt list --upgradable", 0, ok))
        /\ IF ok
           THEN /\ FinishList("list-upgradable",
                                 UpgradableLoop(pkgdb.upgradable, 1, << >>))
                /\ UNCHANGED printed
           ELSE /\ FinishList("list-upgradable", << >>)
                /\ printed' = printed \o
                       << Lit("Error listing upgradable packages"),
                          Out("stderr", "apt list --upgradable", Len(log) + 1) >>
    /\ UNCHANGED << osVars, cacheVars, op, arg, euid, locals, stale_files, idx >>

\* ------------------------------------------------------------- environment
\* Another process of the host starts with, or exits and frees, a PID.
ProcessStarts ==
    \E p \in Pids \ alive :
        /\ alive' = alive \cup {p}
        /\ UNCHANGED << lockExists, sidecar, pkgdb, cacheVars, callVars >>

ProcessExits ==
    \E p \in alive :
        /\ alive' = alive \ {p}
        /\ UNCHANGED << lockExists, sidecar, pkgdb, cacheVars, callVars >>

\* The caller takes the result and the locals of the call are gone; the
\* instance is idle again.
Return ==
    /\ pc = "done"
    /\ pc' = "idle"
    /\ op' = "none"
    /\ arg' = 0
    /\ euid' = ROOT_UID
    /\ stale_files' = << >>
    /\ idx' = 1
    /\ locals' = NoLocals
    /\ log' = << >>
    /\ printed' = << >>
    /\ result' = NoResult
    /\ UNCHANGED << osVars, cacheVars >>

\* ------------------------------------------------------------------ verify
\* verify_package, lines 297-302
VerifyDefault ==
    [installed |-> FALSE, version |-> "None", files_intact |-> "None",
     dependencies_met |-> FALSE]

\* verify_package, line 323: "installed" in status_match.group(1)
ContainsInstalled(status) == status = "install ok installed"

\* verify_package, lines 310-324: the result after dpkg -s exited 0 and
\* printed stdout
VerifyStatus(r, stdout) ==
    [r EXCEPT !.installed = TRUE,
              !.version = IF stdout.version THEN "Version" ELSE "None",
              !.files_intact = IF stdout.status # "" /\ ContainsInstalled(stdout.status)
                               THEN "True" ELSE "None"]

\* verify_package, lines 326-327: what follows a CalledProcessError of dpkg -s
VerifyOnStatusFailure_Pass == "pass"

VerifyOnStatusFailure == "return"

\* verify_package, lines 339-343: the loop body for one line
VerifyDepLine(line, dependencies) ==
    IF line.tag = "Depends:"              \* line.strip().startswith("Depends:")
    THEN Append(dependencies, DepText(line.name, line.constraint))
    ELSE dependencies

RECURSIVE VerifyDepLoop(_, _, _)
VerifyDepLoop(stdout, i, dependencies) ==
    IF i > Len(stdout)
    THEN dependencies
    ELSE VerifyDepLoop(stdout, i + 1, VerifyDepLine(stdout[i], dependencies))

\* verify_package, lines 346-352: all_deps_met after dpkg -s of one dependency
VerifyDepOutcome_Ignore(all_deps_met, ok) == all_deps_met

VerifyDepOutcome(all_deps_met, ok) == all_deps_met /\ ok

\* main(), lines 497-499: the verify command prints the result and exits
FinishVerify(r) ==
    /\ pc' = "done"
    /\ result' = [op |-> "verify", flag |-> FALSE, success |-> FALSE,
                  output |-> << >>, data |-> r,
                  exit |-> MainExit("verify", FALSE, r)]

VerifyCall ==
    /\ \E n \in Packages : Begin("verify", n)
    /\ pc' = "ver_status"
    /\ locals' = [of |-> "verify", result |-> VerifyDefault,
                  dependencies |-> << >>, i |-> 1]
    /\ printed' = << >>
    /\ UNCHANGED << osVars, cacheVars, euid, stale_files, idx, result >>

\* verify_package, lines 305-327: dpkg -s package_name
VerifyStatusQuery ==
    /\ pc = "ver_status"
    /\ \E ok \in BOOLEAN :
        /\ log' = Append(log, Cmd("dpkg -s", arg, ok))
        /\ IF ok
           THEN \E stdout \in StatusOutputs :
                    /\ locals' = [locals EXCEPT !.result = VerifyStatus(@, stdout)]
                    /\ pc' = "ver_depends"
                    /\ UNCHANGED result
           ELSE /\ UNCHANGED locals
                /\ IF VerifyOnStatusFailure = "return"
                   THEN FinishVerify(locals.result)
                   ELSE pc' = "ver_depends" /\ UNCHANGED result
    /\ UNCHANGED << osVars, cacheVars, op, arg, euid, stale_files, idx, printed >>

\* verify_package, lines 330-343 and 354-359: apt-cache depends package_name
VerifyListing ==
    /\ pc = "ver_depends"
    /\ \E ok \in BOOLEAN :
        /\ log' = Append(log, Cmd("apt-cache depends (immediate)", arg, ok))
        /\ IF ok
           THEN LET dependencies == VerifyDepLoop(pkgdb.immediate[arg], 1, << >>)
                IN  IF dependencies = << >>
                    THEN /\ locals' = [locals EXCEPT !.result.dependencies_met = TRUE]
                         /\ FinishVerify(locals'.result)
                    ELSE /\ locals' = [locals EXCEPT !.dependencies = dependencies]
                         /\ pc' = "ver_dep"
                         /\ UNCHANGED result
           ELSE /\ UNCHANGED locals
                /\ FinishVerify(locals.result)
    /\ UNCHANGED << osVars, cacheVars, op, arg, euid, stale_files, idx, printed >>

\* verify_package, lines 346-354: dpkg -s dep for the next dependency
VerifyDependency ==
    /\ pc = "ver_dep"
    /\ \E ok \in BOOLEAN :
        LET dep == locals.dependencies[locals.i]
            all_deps_met == VerifyDepOutcome(TRUE, ok)
        IN  /\ log' = Append(log, Cmd("dpkg -s", dep.name, ok))
            /\ IF ~ok \/ locals.i = Len(locals.dependencies)   \* break, or end
               THEN /\ locals' = [locals EXCEPT
                                     !.result.dependencies_met = all_deps_met]
                    /\ FinishVerify(locals'.result)
               ELSE /\ locals' = [locals EXCEPT !.i = @ + 1]
                    /\ UNCHANGED << pc, result >>
    /\ UNCHANGED << osVars, cacheVars, op, arg, euid, stale_files, idx, printed >>

\* ------------------------------------------------------------- check-repos
\* check_repository_connectivity, lines 124-128
RepoDefault ==
    [all_accessible |-> TRUE, repositories |-> << >>, failures |-> << >>,
     error |-> FALSE]

\* check_repository_connectivity, lines 138-141: the URLs of the listing
PolicyUrls(stdout) ==
    { stdout[i].url : i \in { j \in 1..Len(stdout) : stdout[j].kind = "url" } }

\* What one curl probe can come to: an exit with the %{http_code} it printed,
\* a sequence of digits ("000" when no response came), or TimeoutExpired.
HttpCodes == { << 2, 0, 0 >>, << 3, 0, 1 >>, << 4, 0, 4 >>, << 0, 0, 0 >> }
ProbeOutcomes ==
    { [kind |-> "status", code |-> c] : c \in HttpCodes }
        \cup { [kind |-> "timeout", code |-> << >>] }

\* str.startswith of one digit
StartsWith(http_code, d) == Len(http_code) > 0 /\ http_code[1] = d

\* check_repository_connectivity, line 166
ProbeAccessible_Only2xx(http_code) == StartsWith(http_code, 2)

ProbeAccessible(http_code) == StartsWith(http_code, 2) \/ StartsWith(http_code, 3)

\* an element of result["repositories"]; http_code is << >> and error TRUE
\* in the entry of a probe that raised
RepoEntry(u, a, c, e) == [url |-> u, accessible |-> a, http_code |-> c, error |-> e]

\* check_repository_connectivity, lines 175-176 and 186-187
MarkFailure_KeepFlag(r, repo_url) ==
    [r EXCEPT !.failures = Append(@, repo_url)]

MarkFailure(r, repo_url) ==
    [r EXCEPT !.all_accessible = FALSE, !.failures = Append(@, repo_url)]

\* check_repository_connectivity, lines 147-190: the result after one probe
ProbeResult(r, repo_url, outcome) ==
    IF outcome.kind = "timeout"
    THEN [MarkFailure(r, repo_url) EXCEPT
            !.repositories = Append(@, RepoEntry(repo_url, FALSE, << >>, TRUE))]
    ELSE IF ProbeAccessible(outcome.code)
    THEN [r EXCEPT
            !.repositories = Append(@, RepoEntry(repo_url, TRUE, outcome.code, FALSE))]
    ELSE [MarkFailure(r, repo_url) EXCEPT
            !.repositories = Append(@, RepoEntry(repo_url, FALSE, outcome.code, FALSE))]

\* check_repository_connectivity, lines 192-193: the result after a
\* CalledProcessError of apt-cache policy
PolicyFailureResult_Silent(r) == r

PolicyFailureResult(r) == [r EXCEPT !.error = TRUE]

\* main(), lines 537-539: the check-repos command prints the result and exits
FinishRepos(r) ==
    /\ pc' = "done"
    /\ result' = [op |-> "check-repos", flag |-> FALSE, success |-> FALSE,
                  output |-> << >>, data |-> r,
                  exit |-> MainExit("check-repos", FALSE, r)]

\* locals: repos is the set of URLs the loop of line 144 has yet to visit,
\* probed the outcome of every probe so far
CheckReposCall ==
    /\ Begin("check-repos", 0)
    /\ pc' = "rep_policy"
    /\ locals' = [of |-> "check-repos", result |-> RepoDefault, repos |-> {},
                  probed |-> << >>]
    /\ printed' = << >>
    /\ UNCHANGED << osVars, cacheVars, euid, stale_files, idx, result >>

\* check_repository_connectivity, lines 130-141 and 192-195: apt-cache policy
CheckReposPolicy ==
    /\ pc = "rep_policy"
    /\ \E ok \in BOOLEAN :
        /\ log' = Append(log, Cmd("apt-cache policy", 0, ok))
        /\ IF ok
           THEN LET repos == PolicyUrls(pkgdb.policy)
                IN  /\ locals' = [locals EXCEPT !.repos = repos]
                    /\ IF repos = {}
                       THEN FinishRepos(locals.result)
                       ELSE pc' = "rep_probe" /\ UNCHANGED result
           ELSE /\ locals' = [locals EXCEPT !.result = PolicyFailureResult(@)]
                /\ FinishRepos(locals'.result)
    /\ UNCHANGED << osVars, cacheVars, op, arg, euid, stale_files, idx, printed >>

\* check_repository_connectivity, lines 144-190: one pass of the loop over the
\* set repos, which yields its elements in no particular order
CheckReposProbe ==
    /\ pc = "rep_probe"
    /\ \E repo_url \in locals.repos, outcome \in ProbeOutcomes :
        /\ log' = Append(log, Cmd("curl", repo_url, outcome.kind = "status"))
        /\ locals' = [locals EXCEPT
                         !.result = ProbeResult(@, repo_url, outcome),
                         !.repos = @ \ {repo_url},
                         !.probed = Append(@, [url |-> repo_url, outcome |-> outcome])]
        /\ IF locals'.repos = {}
           THEN FinishRepos(locals'.result)
           ELSE UNCHANGED << pc, result >>
    /\ UNCHANGED << osVars, cacheVars, op, arg, euid, stale_files, idx, printed >>

\* -------------------------------------------------------------------- info
\* package_info, lines 464-468: the loop body for one line; info is the dict,
\* a set of items with one item per key
InfoLine(line, info) ==
    IF line.key # ""                                  \* ":" in line
    THEN { e \in info : e.key # line.key } \cup { ShowLine(line.key, line.value) }
    ELSE info

RECURSIVE InfoLoop(_, _, _)
InfoLoop(stdout, i, info) ==
    IF i > Len(stdout)
    THEN info
    ELSE InfoLoop(stdout, i + 1, InfoLine(stdout[i], info))

\* package_info, lines 472-473: what follows a CalledProcessError of
\* apt-cache show
InfoOnFailure_Raise == "raise"

InfoOnFailure == "return None"

\* main(), lines 512-520: the info command prints the details and exits 0, or
\* prints "Package not found" and exits 1
FinishInfo(none, info) ==
    LET data == [none |-> none, info |-> info]
    IN  /\ pc' = "done"
        /\ result' = [op |-> "info", flag |-> FALSE, success |-> FALSE,
                      output |-> << >>, data |-> data,
                      exit |-> MainExit("info", FALSE, data)]
        /\ printed' = IF MainExit("info", FALSE, data) = 0
                      THEN printed
                      ELSE Append(printed, Lit("Package not found"))

InfoCall ==
    /\ \E n \in Packages : Begin("info", n)
    /\ pc' = "info_run"
    /\ printed' = << >>
    /\ UNCHANGED << osVars, cacheVars, euid, locals, stale_files, idx, result >>

\* package_info, lines 455-473: apt-cache show package_name
InfoRun ==
    /\ pc = "info_run"
    /\ \E ok \in BOOLEAN :
        /\ log' = Append(log, Cmd("apt-cache show", arg, ok))
        /\ IF ok
           THEN FinishInfo(FALSE, InfoLoop(pkgdb.show[arg], 1, {}))
           ELSE IF InfoOnFailure = "return None"
           THEN FinishInfo(TRUE, {})
           ELSE pc' = "raised" /\ UNCHANGED << result, printed >>
    /\ UNCHANGED << osVars, cacheVars, op, arg, euid, locals, stale_files, idx >>

\* -------------------------------------------------------- session monitor
\* session-monitor.py: SessionMonitor class constants
MAX_MEMORY_MB == 4096
TARGET_BUFFER_MB == 1024
TARGET_SESSIONS == 3
EXPECTED_PER_SESSION_MB == (MAX_MEMORY_MB - TARGET_BUFFER_MB) \div TARGET_SESSIONS

\* main(): --threshold, an integer percentage, 75 unless given
DefaultThreshold == 75
Thresholds == { DefaultThreshold, 90 }

\* What get_system_memory returns: the empty dict after a failed or
\* unparsable `free -m`, else the figures of its Mem: line.
NoMemory == [empty |-> TRUE, total_mb |-> 0, used_mb |-> 0]
Memory(total, used) == [empty |-> FALSE, total_mb |-> total, used_mb |-> used]

\* What `free -m` can come to: a non-zero exit, an output without a complete
\* Mem: line, or a Mem: line with half or seven eighths of the memory in use.
FreeOutcomes ==
    { [ok |-> FALSE, complete |-> FALSE, mem |-> NoMemory],
      [ok |-> TRUE, complete |-> FALSE, mem |-> NoMemory],
      [ok |-> TRUE, complete |-> TRUE,
       mem |-> Memory(MAX_MEMORY_MB, MAX_MEMORY_MB \div 2)],
      [ok |-> TRUE, complete |-> TRUE,
       mem |-> Memory(MAX_MEMORY_MB, (MAX_MEMORY_MB \div 8) * 7)] }

\* get_system_memory, lines 100-125
get_system_memory(free) ==
    IF free.ok /\ free.complete THEN free.mem ELSE NoMemory

\* One line of `ps aux` output: xorg says that it is the line of an Xorg
\* process with a display argument, mem is its %MEM column in tenths.
PsLine(x, m) == [xorg |-> x, mem |-> m]
PsLines == { PsLine(TRUE, 100), PsLine(TRUE, 376), PsLine(FALSE, 376) }
PsOutcomes ==
    { [ok |-> FALSE, stdout |-> << >>] }
        \cup { [ok |-> TRUE, stdout |-> l] : l \in SeqsUpTo(PsLines, MaxLines) }

\* get_active_sessions, lines 41-98: the %MEM of the sessions found
RECURSIVE SessionLoop(_, _, _)
SessionLoop(stdout, i, sessions) ==
    IF i > Len(stdout)
    THEN sessions
    ELSE SessionLoop(stdout, i + 1,
                     IF stdout[i].xorg THEN Append(sessions, stdout[i].mem)
                     ELSE sessions)

get_active_sessions(ps) ==
    IF ps.ok THEN SessionLoop(ps.stdout, 1, << >>) ELSE << >>

\* check_thresholds, lines 142-143: used_percent > threshold_percent, where
\* used_percent = (used_mb / total_mb) * 100
MemoryExceeds(system_mem, threshold_percent) ==
    system_mem.used_mb * 100 > threshold_percent * system_mem.total_mb

\* check_thresholds, lines 78 and 155: memory_mb > EXPECTED_PER_SESSION_MB * 1.5
\* where memory_mb = (mem_percent / 100.0) * MAX_MEMORY_MB
SessionExceeds(mem_tenths) ==
    mem_tenths * MAX_MEMORY_MB * 2 > EXPECTED_PER_SESSION_MB * 3 * 1000

\* main(), lines 268-273: the exit code, from what check_thresholds returned
MonitorExit(thresholds_ok) == IF ~thresholds_ok THEN 1 ELSE 0

\* get_system_memory and get_active_sessions print to sys.stderr when their
\* command exits non-zero, lines 92-94 and 123-125
MonitorErrorText(ok, text) == IF ok THEN << >> ELSE << Lit(text) >>

\* main(), lines 262-263: SessionMonitor() and generate_report; locals.pass
\* tells the check_thresholds call of generate_report (line 180) from the one
\* of main (line 270)
MonitorCall ==
    /\ \E threshold \in Thresholds : Begin("session-monitor", threshold)
    /\ pc' = "mon_memory"
    /\ locals' = [of |-> "session-monitor", system_mem |-> NoMemory,
                  sessions |-> << >>, thresholds_ok |-> FALSE, pass |-> "report"]
    /\ printed' = << >>
    /\ UNCHANGED << osVars, cacheVars, euid, stale_files, idx, result >>

\* generate_report, line 178: system_mem = self.get_system_memory()
MonitorReportMemory ==
    /\ pc = "mon_memory"
    /\ \E free \in FreeOutcomes :
        /\ log' = Append(log, Cmd("free -m", 0, free.ok))
        /\ printed' = printed \o MonitorErrorText(free.ok, "Error getting memory stats")
        /\ locals' = [locals EXCEPT !.system_mem = get_system_memory(free)]
    /\ pc' = "mon_sessions"
    /\ UNCHANGED << osVars, cacheVars, op, arg, euid, stale_files, idx, result >>

\* generate_report, line 179: sessions = self.get_active_sessions()
MonitorReportSessions ==
    /\ pc = "mon_sessions"
    /\ \E ps \in PsOutcomes :
        /\ log' = Append(log, Cmd("ps aux", 0, ps.ok))
        /\ printed' = printed \o MonitorErrorText(ps.ok, "Error getting process list")
        /\ locals' = [locals EXCEPT !.sessions = get_active_sessions(ps)]
    /\ pc' = "chk_memory"
    /\ UNCHANGED << osVars, cacheVars, op, arg, euid, stale_files, idx, result >>

\* check_thresholds returns ok: to generate_report, which goes on to build
\* the report (lines 180-248), or to main, which exits (lines 265-273)
MonitorVerdict(ok) ==
    IF locals.pass = "report"
    THEN /\ locals' = [locals EXCEPT !.thresholds_ok = ok, !.pass = "main"]
         /\ pc' = "chk_memory"
         /\ UNCHANGED result
    ELSE /\ UNCHANGED locals
         /\ pc' = "done"
         /\ result' = [op |-> "session-monitor", flag |-> FALSE, success |-> ok,
                       output |-> << >>,
                       data |-> [system_mem |-> locals.system_mem,
                                 sessions |-> locals.sessions,
                                 thresholds_ok |-> locals.thresholds_ok],
                       exit |-> MonitorExit(ok)]

\* check_thresholds, lines 137-149: the memory statistics and their test
MonitorCheckMemory ==
    /\ pc = "chk_memory"
    /\ \E free \in FreeOutcomes :
        LET system_mem == get_system_memory(free)
        IN  /\ log' = Append(log, Cmd("free -m", 0, free.ok))
            /\ printed' = printed \o
                   MonitorErrorText(free.ok, "Error getting memory stats")
            /\ IF system_mem.empty \/ MemoryExceeds(system_mem, arg)
               THEN MonitorVerdict(FALSE)
               ELSE pc' = "chk_sessions" /\ UNCHANGED << locals, result >>
    /\ UNCHANGED << osVars, cacheVars, op, arg, euid, stale_files, idx >>

\* check_thresholds, lines 151-164: the sessions and their test
MonitorCheckSessions ==
    /\ pc = "chk_sessions"
    /\ \E ps \in PsOutcomes :
        LET sessions == get_active_sessions(ps)
        IN  /\ log' = Append(log, Cmd("ps aux", 0, ps.ok))
            /\ printed' = printed \o
                   MonitorErrorText(ps.ok, "Error getting process list")
            /\ MonitorVerdict(\A i \in 1..Len(sessions) : ~SessionExceeds(sessions[i]))
    /\ UNCHANGED << osVars, cacheVars, op, arg, euid, stale_files, idx >>

\* ------------------------------------------------------------------- Init
InitInstance ==
    /\ apt_cache_updated = FALSE          \* __init__
    /\ pc = "idle"
    /\ op = "none"
    /\ arg = 0
    /\ euid = ROOT_UID
    /\ stale_files = << >>
    /\ idx = 1
    /\ locals = NoLocals
    /\ log = << >>
    /\ printed = << >>
    /\ refreshLog = << >>
    /\ everForced = FALSE
    /\ result = NoResult

\* any state of the three lock files, their sidecars and the process table
InitLocks ==
    /\ lockExists \in [LockPaths -> BOOLEAN]
    /\ sidecar \in [LockPaths -> SidecarValues]
    /\ alive \in SUBSET Pids
    /\ pkgdb = SamplePkgDb
    /\ InitInstance

LockNext ==
    \/ CheckLock
    \/ ReleaseInspect
    \/ ReleaseRemove
    \/ ReleaseReconfigure
    \/ ProcessStarts
    \/ ProcessExits
    \/ Return

LockSpec == InitLocks /\ [][LockNext]_vars

\* the lock files of a host where nothing holds or left a lock
InitPkg ==
    /\ lockExists = [p \in LockPaths |-> TRUE]
    /\ sidecar = [p \in LockPaths |-> Sidecar("absent", 0)]
    /\ alive = {}
    /\ pkgdb = SamplePkgDb
    /\ InitInstance

PkgNext ==
    \/ UpdateCacheCall
    \/ UpdateCacheRun
    \/ InstallCall
    \/ InstallUpdateCache
    \/ InstallRun
    \/ FixBrokenCall
    \/ FixBrokenFirst
    \/ FixBrokenReconfigure
    \/ FixBrokenRetry
    \/ ResolveCall
    \/ ResolveUpdateCache
    \/ ResolveRun
    \/ ListUpgradableCall
    \/ ListUpgradableUpdateCache
    \/ ListUpgradableRun
    \/ Return

PkgSpec == InitPkg /\ [][PkgNext]_vars

\* PkgSpec where every external command that was started returns:
\* subprocess.run blocks until the command exits.
PkgLiveSpec ==
    /\ PkgSpec
    /\ WF_vars(InstallUpdateCache)
    /\ WF_vars(InstallRun)
    /\ WF_vars(FixBrokenFirst)
    /\ WF_vars(FixBrokenReconfigure)
    /\ WF_vars(FixBrokenRetry)

\* One resolve-deps request against any dependency listing.
InitResolve ==
    /\ lockExists = [p \in LockPaths |-> TRUE]
    /\ sidecar = [p \in LockPaths |-> Sidecar("absent", 0)]
    /\ alive = {}
    /\ pkgdb \in { [SamplePkgDb EXCEPT !.depends = [n \in Packages |-> l]] :
                      l \in DependsListings }
    /\ InitInstance

ResolveNext ==
    \/ ResolveCall
    \/ ResolveUpdateCache
    \/ ResolveRun

ResolveSpec == InitResolve /\ [][ResolveNext]_vars

\* One verify request against any immediate-dependency listing.
InitVerify ==
    /\ lockExists = [p \in LockPaths |-> TRUE]
    /\ sidecar = [p \in LockPaths |-> Sidecar("absent", 0)]
    /\ alive = {}
    /\ pkgdb \in { [SamplePkgDb EXCEPT !.immediate = [n \in Packages |-> l]] :
                      l \in ImmediateListings }
    /\ InitInstance

VerifyNext ==
    \/ VerifyCall
    \/ VerifyStatusQuery
    \/ VerifyListing
    \/ VerifyDependency

VerifySpec == InitVerify /\ [][VerifyNext]_vars

\* One check-repos request against any policy listing.
InitRepos ==
    /\ lockExists = [p \in LockPaths |-> TRUE]
    /\ sidecar = [p \in LockPaths |-> Sidecar("absent", 0)]
    /\ alive = {}
    /\ pkgdb \in { [SamplePkgDb EXCEPT !.policy = l] : l \in PolicyListings }
    /\ InitInstance

ReposNext ==
    \/ CheckReposCall
    \/ CheckReposPolicy
    \/ CheckReposProbe

RepoSpec == InitRepos /\ [][ReposNext]_vars

\* One run of the session monitor.
MonitorNext ==
    \/ MonitorCall
    \/ MonitorReportMemory
    \/ MonitorReportSessions
    \/ MonitorCheckMemory
    \/ MonitorCheckSessions

MonitorSpec == InitPkg /\ [][MonitorNext]_vars

\* Every operation of the package manager, one request after another, on a
\* host where no process runs under a recorded PID: every lock file that
\* exists has a sidecar with the PID of a dead process.
InitAll ==
    /\ lockExists \in [LockPaths -> BOOLEAN]
    /\ sidecar = [p \in LockPaths |-> Sidecar("digits", 1)]
    /\ alive = {}
    /\ pkgdb = SamplePkgDb
    /\ InitInstance

AllNext ==
    \/ CheckLock
    \/ ReleaseInspect
    \/ ReleaseRemove
    \/ ReleaseReconfigure
    \/ InstallCall
    \/ InstallUpdateCache
    \/ InstallRun
    \/ FixBrokenCall
    \/ FixBrokenFirst
    \/ FixBrokenReconfigure
    \/ FixBrokenRetry
    \/ ResolveCall
    \/ ResolveUpdateCache
    \/ ResolveRun
    \/ ListUpgradableCall
    \/ ListUpgradableUpdateCache
    \/ ListUpgradableRun
    \/ VerifyCall
    \/ VerifyStatusQuery
    \/ VerifyListing
    \/ VerifyDependency
    \/ CheckReposCall
    \/ CheckReposPolicy
    \/ CheckReposProbe
    \/ InfoCall
    \/ InfoRun
    \/ Return

AllSpec == InitAll /\ [][AllNext]_vars

\* ================================================================== claims
\* positions in the request's command log of the invocations of command c
Positions(c) == { i \in 1..Len(log) : log[i].cmd = c }
Count(c) == Cardinality(Positions(c))
First(c) == CHOOSE i \in Positions(c) : \A j \in Positions(c) : i <= j
Last(c) == CHOOSE i \in Positions(c) : \A j \in Positions(c) : j <= i

Done(command) == pc = "done" /\ op = command
RecordedPidAlive(p) == sidecar[p].kind = "digits" /\ sidecar[p].pid \in alive
RecordedPidDead(p) == sidecar[p].kind = "digits" /\ sidecar[p].pid \notin alive

\* C1: whenever release() deletes a lock file, the PID recorded for that lock
\* does not belong to a live process at the moment of the deletion, also when
\* a process with that PID starts between the inspection and the deletion.
C1_DeleteOnlyIfHolderDead ==
    [][\A p \in LockPaths :
          (lockExists[p] /\ ~lockExists'[p]) => ~RecordedPidAlive(p)]_vars

C4_RefreshFailureIsTerminal ==
    (op = "install" /\ Count("apt-get update") = 1
                    /\ ~log[First("apt-get update")].ok)
        => /\ Count("apt-get install") = 0
           /\ (pc = "done" => ~result.success)

\* C5 as stated: with no forced call, the refresh command is invoked at most
\* once over the life of the instance, whatever the outcome of each refresh.
C5_AtMostOneRefresh ==
    ~everForced => Len(refreshLog) <= 1

\* C5 amended: with no forced call, the refresh command is invoked again only
\* while every earlier refresh failed; after a successful refresh it is never
\* invoked again, so at most one refresh succeeds.
C5_NoRefreshAfterSuccess ==
    ~everForced => \A i \in 1..(Len(refreshLog) - 1) : ~refreshLog[i]

C5_Witness ==
    /\ ~everForced
    /\ refreshLog = << FALSE, TRUE >>
    /\ op = "install"
    /\ pc = "done"
    /\ Count("apt-get update") = 0

\* C6: a request invokes its primary command at most twice (install for an
\* install request, fix-broken for a fix-broken request) and the reconfigure
\* step at most once, between the two invocations.
C6_AtMostTwoAttempts ==
    /\ op = "install"
        => /\ Count("apt-get install") <= 2
           /\ Count("dpkg --configure -a") <= 1
    /\ op = "fix-broken"
        => /\ Count("apt-get --fix-broken") <= 2
           /\ Count("dpkg --configure -a") <= 1
           /\ Count("dpkg --configure -a") = 1
                => /\ First("apt-get --fix-broken") < First("dpkg --configure -a")
                   /\ Count("apt-get --fix-broken") = 2
                        => First("dpkg --configure -a") < Last("apt-get --fix-broken")

C6_Witness ==
    /\ Done("fix-broken")
    /\ Count("apt-get --fix-broken") = 2
    /\ Count("dpkg --configure -a") = 1

C8_RetryWhateverReconfigure ==
    Done("fix-broken")
        => /\ log[1].cmd = "apt-get --fix-broken"
           /\ log[1].ok => (Len(log) = 1 /\ result.success)
           /\ ~log[1].ok
                => /\ Len(log) = 3
                   /\ log[2].cmd = "dpkg --configure -a"
                   /\ log[3].cmd = "apt-get --fix-broken"
                   /\ result.success = log[3].ok

\* C8 amended: when the first fix-broken pass fails, the reconfigure step
\* runs; the fix-broken pass is retried exactly once when the reconfigure
\* step succeeds and not at all when it fails; success iff the first pass
\* succeeds, or the reconfigure step and the retry both succeed.
C8_RetryAfterReconfigureSucceeds ==
    Done("fix-broken")
        => /\ log[1].cmd = "apt-get --fix-broken"
           /\ log[1].ok => (Len(log) = 1 /\ result.success)
           /\ ~log[1].ok
                => /\ Len(log) >= 2
                   /\ log[2].cmd = "dpkg --configure -a"
                   /\ ~log[2].ok => (Len(log) = 2 /\ ~result.success)
                   /\ log[2].ok
                        => /\ Len(log) = 3
                           /\ log[3].cmd = "apt-get --fix-broken"
                           /\ result.success = log[3].ok

C8_Witness ==
    /\ Done("fix-broken")
    /\ Len(log) = 3
    /\ ~log[1].ok
    /\ log[3].ok
    /\ result.success

\* C9 as stated: a failure of fixBrokenDependencies carries the output of the
\* first fix-broken attempt and the output of the second fix-broken attempt.
C9_BothAttemptsInMessage ==
    (Done("fix-broken") /\ ~result.success)
        => /\ InSeq(Out("stderr", "apt-get --fix-broken", 1), result.output)
           /\ Count("apt-get --fix-broken") = 2
           /\ InSeq(Out("stderr", "apt-get --fix-broken", Last("apt-get --fix-broken")),
                    result.output)

\* C9 amended: a failure of fixBrokenDependencies carries the output of the
\* first fix-broken attempt and the output of the command that failed after
\* it: the reconfigure step, or else the second fix-broken attempt.
C9_FirstAndLastFailureInMessage ==
    (Done("fix-broken") /\ ~result.success)
        => /\ Len(log) >= 2
           /\ ~log[1].ok /\ ~log[Len(log)].ok
           /\ InSeq(Out("stderr", "apt-get --fix-broken", 1), result.output)
           /\ InSeq(Out("stderr", log[Len(log)].cmd, Len(log)), result.output)
           /\ \A i \in 1..Len(log) :
                (i # 1 /\ i # Len(log))
                    => ~InSeq(Out("stderr", log[i].cmd, i), result.output)

C9_Witness ==
    /\ Done("fix-broken")
    /\ ~result.success
    /\ Len(log) = 2
    /\ log[2].cmd = "dpkg --configure -a"

\* C10: an inspection reports a lock file as stale iff the lock has a recorded
\* holder PID and no process with that PID exists when it is inspected; a lock
\* whose PID is live, or whose sidecar is absent, unreadable or non-numeric,
\* is not reported.
C10_StaleIffHolderDead ==
    [][(pc = "idle" /\ pc' = "done" /\ op' = "check-lock")
          => \A p \in LockPaths :
                /\ InSeq(p, result'.data) <=> (lockExists[p] /\ RecordedPidDead(p))
                /\ (RecordedPidAlive(p) \/ sidecar[p].kind # "digits")
                      => ~InSeq(p, result'.data)]_vars

C10_Witness ==
    /\ Done("check-lock")
    /\ Len(result.data) = 1
    /\ \E p, q, r \in LockPaths :
        /\ p # q /\ q # r /\ p # r
        /\ lockExists[p] /\ lockExists[q] /\ lockExists[r]
        /\ result.data = << p >>
        /\ RecordedPidDead(p)
        /\ RecordedPidAlive(q)
        /\ sidecar[r].kind = "nondigit"

FailedRemovals == { i \in 1..Len(printed) : printed[i] = Lit("Failed to release") }

\* C11: a release() run as root in which every deletion succeeds removes
\* exactly the lock files its inspection reported stale: the inspection
\* reports the existing lock files whose recorded PID is dead and no others
\* (not a lock held by a live process, not a lock without a recorded PID),
\* only reported paths are ever deleted, and all of them are gone when the
\* call has gone through every deletion.
C11_RemovesExactlyStale ==
    [][/\ (pc = "idle" /\ op' = "release-locks")
            => \A p \in LockPaths :
                  InSeq(p, stale_files') <=> (lockExists[p] /\ RecordedPidDead(p))
       /\ \A p \in LockPaths :
            (lockExists[p] /\ ~lockExists'[p])
                => /\ op = "release-locks"
                   /\ euid = ROOT_UID
                   /\ InSeq(p, stale_files)
       /\ \A p \in LockPaths : ~lockExists[p] => ~lockExists'[p]
       /\ (op = "release-locks" /\ pc # "done") => stale_files' = stale_files
       /\ (pc = "rel_dpkg" /\ pc' = "done")
            => \A p \in LockPaths :
                  InSeq(p, stale_files) => ~lockExists'[p]]_vars

C11_Witness ==
    /\ Done("release-locks")
    /\ euid = ROOT_UID
    /\ result.success
    /\ \E p, q, r \in LockPaths :
        /\ p # q /\ q # r /\ p # r
        /\ stale_files = << p >>
        /\ ~lockExists[p]
        /\ lockExists[q] /\ RecordedPidAlive(q)
        /\ lockExists[r] /\ sidecar[r].kind = "absent"

\* C12: when the deletion of a stale lock file fails, release() returns
\* failure, the stale paths after the failing one are not deleted, and the
\* reconfigure command is not invoked.
C12_AbortOnFailedRemoval ==
    (Done("release-locks") /\ FailedRemovals # {})
        => /\ ~result.success
           /\ Cardinality(FailedRemovals) = 1
           /\ Count("dpkg --configure -a") = 0
           /\ \A j \in (idx + 1)..Len(stale_files) : lockExists[stale_files[j]]

C12_Witness ==
    /\ Done("release-locks")
    /\ FailedRemovals # {}
    /\ idx = 2
    /\ Len(stale_files) = 3
    /\ ~lockExists[stale_files[1]]
    /\ lockExists[stale_files[3]]

\* C13: when every stale lock deletion succeeds, release() returns success
\* whether the reconfigure command succeeds or fails, and the reconfigure
\* command is invoked exactly once, after the last deletion.
C13_SuccessDespiteReconfigure ==
    /\ (op = "release-locks" /\ Count("dpkg --configure -a") >= 1)
        => /\ Count("dpkg --configure -a") = 1
           /\ idx > Len(stale_files)
           /\ \A j \in 1..Len(stale_files) : ~lockExists[stale_files[j]]
    /\ (Done("release-locks") /\ euid = ROOT_UID /\ stale_files # << >>
                              /\ FailedRemovals = {})
        => /\ result.success
           /\ Count("dpkg --configure -a") = 1

C13_Witness ==
    /\ Done("release-locks")
    /\ Len(stale_files) = 2
    /\ FailedRemovals = {}
    /\ Count("dpkg --configure -a") = 1
    /\ ~log[1].ok
    /\ result.success

DependsIdx(l) == { i \in 1..Len(l) : l[i].tag \in {"Depends:", "PreDepends:"} }
FirstSeen(l, n) ==
    CHOOSE i \in DependsIdx(l) :
        /\ l[i].name = n
        /\ \A j \in DependsIdx(l) : l[j].name = n => i <= j

ResolveFailed == Done("resolve-deps") /\ ~log[Len(log)].ok
ResolveErrorPrinted == InSeq(Lit("Error resolving dependencies"), printed)

\* C16 as stated: a failed resolution returns an empty sequence together with
\* a reported error, and differs from the resolution of a package without
\* dependencies in what is returned and in the exit code of resolve-deps.
C16_FailureDistinguishable ==
    ResolveFailed
        => /\ result.data = << >>
           /\ ResolveErrorPrinted
           /\ result.flag /\ ~result.success
           /\ result.exit # 0

\* C16 amended: a failed resolution returns an empty sequence and writes the
\* error to the diagnostic stream; nothing else tells it from the resolution
\* of a package without dependencies: no success flag is returned and
\* resolve-deps exits 0 in both cases.
C16_FailureOnlyOnStderr ==
    Done("resolve-deps")
        => /\ ~result.flag
           /\ result.exit = 0
           /\ ResolveErrorPrinted <=> ~log[Len(log)].ok
           /\ ~log[Len(log)].ok => result.data = << >>

C16_Witness ==
    /\ ResolveFailed
    /\ result.data = << >>
    /\ ResolveErrorPrinted
    /\ DependsIdx(pkgdb.depends[arg]) # {}

DepQueries == { i \in 3..Len(log) : log[i].cmd = "dpkg -s" }
ListedDeps(l) == { l[i].name : i \in { j \in 1..Len(l) : l[j].tag = "Depends:" } }

\* C18: for an installed package, dependencies_met is true exactly when the
\* immediate-dependency listing succeeded and the status query of every
\* dependency it lists was issued and succeeded; with nothing listed it is
\* true, and one failed dependency query makes it false.
C18_DependenciesMetIff ==
    (Done("verify") /\ log[1].ok)
        => /\ result.data.installed
           /\ result.data.dependencies_met
                <=> /\ log[2].ok
                    /\ \A n \in ListedDeps(pkgdb.immediate[arg]) :
                          \E i \in DepQueries : log[i].arg = n /\ log[i].ok
                    /\ \A i \in DepQueries : log[i].ok
           /\ (log[2].ok /\ ListedDeps(pkgdb.immediate[arg]) = {})
                => result.data.dependencies_met
           /\ (\E i \in DepQueries : ~log[i].ok) => ~result.data.dependencies_met

C18_Witness ==
    /\ Done("verify")
    /\ log[1].ok
    /\ Len(log) = 4
    /\ log[3].ok /\ ~log[4].ok
    /\ ~result.data.dependencies_met

\* the report of check-repos while it is built and once it is returned
RepoReport == IF pc = "done" THEN result.data ELSE locals.result

\* C19: in every result of check_repository_connectivity, whatever the
\* policy listing and the probes came to, all_accessible is true exactly when
\* failures is empty.
C19_AllAccessibleIffNoFailures ==
    op = "check-repos"
        => (RepoReport.all_accessible <=> RepoReport.failures = << >>)

C19_Witness ==
    /\ Done("check-repos")
    /\ Len(result.data.repositories) = 2
    /\ result.data.repositories[1].accessible
    /\ ~result.data.all_accessible
    /\ Len(result.data.failures) = 1

\* a probe that came back with a 2xx or 3xx status
Answered2xx3xx(outcome) ==
    outcome \in { [kind |-> "status", code |-> << 2, 0, 0 >>],
                  [kind |-> "status", code |-> << 3, 0, 1 >>] }

RECURSIVE InaccessibleUrls(_)
InaccessibleUrls(repositories) ==
    IF repositories = << >>
    THEN << >>
    ELSE LET rest == InaccessibleUrls(Tail(repositories))
         IN  IF Head(repositories).accessible
             THEN rest
             ELSE << Head(repositories).url >> \o rest

\* C20: the report has one entry per probe, marked accessible exactly when
\* the probe returned a 2xx or 3xx status, and failures lists, in order, the
\* URLs of the entries marked inaccessible.
C20_AccessibleIff2xx3xx ==
    Done("check-repos")
        => LET r == result.data
           IN  /\ Len(r.repositories) = Len(locals.probed)
               /\ \A i \in 1..Len(r.repositories) :
                    /\ r.repositories[i].url = locals.probed[i].url
                    /\ r.repositories[i].accessible
                          <=> Answered2xx3xx(locals.probed[i].outcome)
               /\ r.failures = InaccessibleUrls(r.repositories)

C20_Witness ==
    /\ Done("check-repos")
    /\ Len(locals.probed) = 2
    /\ locals.probed[1].outcome = [kind |-> "status", code |-> << 3, 0, 1 >>]
    /\ locals.probed[2].outcome.kind = "timeout"
    /\ result.data.failures = << locals.probed[2].url >>

\* the HTTP(S) URLs that appear in a policy listing
ListedUrls(l) == { l[i].url : i \in { j \in 1..Len(l) : l[j].kind \in {"url", "prio"} } }

\* C21: when apt-cache policy succeeds, the report holds exactly one entry
\* for every distinct HTTP(S) URL of the listing, whatever the probes of the
\* other URLs came to.
C21_OneEntryPerListedUrl ==
    (Done("check-repos") /\ log[1].ok)
        => LET r == result.data.repositories
           IN  /\ { r[i].url : i \in 1..Len(r) } = ListedUrls(pkgdb.policy)
               /\ \A i, j \in 1..Len(r) : i # j => r[i].url # r[j].url

\* C22: when apt-cache policy fails, the report carries the top-level error,
\* no endpoint entry and no failure, and no probe was issued.
C22_PolicyFailureIsSingleError ==
    (Done("check-repos") /\ ~log[1].ok)
        => /\ result.data.error
           /\ result.data.repositories = << >>
           /\ result.data.failures = << >>
           /\ Len(log) = 1
           /\ locals.probed = << >>

C22_Witness ==
    /\ Done("check-repos")
    /\ ~log[1].ok
    /\ result.data.error
    /\ PolicyUrls(pkgdb.policy) # {}

\* C23: check-repos exits 0 only when probes ran and every configured
\* repository was found accessible; it exits 1 in every other case, a failed
\* policy listing included.
C23_ExitZeroOnlyWhenAllProbedAccessible ==
    Done("check-repos")
        => (result.exit = 0
              <=> /\ log[1].ok
                  /\ locals.probed # << >>
                  /\ \A i \in 1..Len(locals.probed) :
                        Answered2xx3xx(locals.probed[i].outcome)
                  /\ { locals.probed[i].url : i \in 1..Len(locals.probed) }
                        = ListedUrls(pkgdb.policy))

\* C24: in every result of check_stale_lock, has_stale_locks is true exactly
\* when the list of stale paths is not empty, and check-lock exits 1 exactly
\* when has_stale_locks is true and 0 otherwise.
C24_HasStaleIffPathsAndExit ==
    Done("check-lock")
        => /\ result.success <=> result.data # << >>
           /\ result.exit = 1 <=> result.success
           /\ result.exit = 0 <=> ~result.success

C24_Witness ==
    /\ Done("check-lock")
    /\ result.success
    /\ Len(result.data) = 2
    /\ result.exit = 1

\* the operations the package manager offers its caller
Operations ==
    { "install", "verify", "resolve-deps", "fix-broken", "release-locks",
      "check-repos", "list-upgradable", "info" }
CommandFailed == \E i \in 1..Len(log) : ~log[i].ok

\* the returned value says that the operation failed: a success flag, the
\* error or an inaccessible endpoint of a repository report, the unmet
\* dependencies of a verify snapshot, the missing details of info
StatesOutcome ==
    \/ result.flag
    \/ op = "check-repos" /\ (result.data.error \/ ~result.data.all_accessible)
    \/ op = "verify" /\ ~result.data.dependencies_met
    \/ op = "info" /\ result.data.none

\* C25 as stated: whenever an external command of an operation exits
\* non-zero, the operation returns, and what it returns states success or
\* failure explicitly.
C25_FailureEndsInExplicitResult ==
    /\ pc # "raised"
    /\ (pc = "done" /\ op \in Operations /\ CommandFailed) => StatesOutcome

\* C25 amended: no operation propagates the failure of an external command;
\* install, fix-broken and release return a success flag, while the other
\* operations return their usual value without one: resolve and
\* list-upgradable a plain list, which is empty when their listing command
\* failed.
C25_FailureIsCaught ==
    /\ pc # "raised"
    /\ (pc = "done" /\ op \in Operations)
          => /\ result.flag <=> op \in {"install", "fix-broken", "release-locks"}
             /\ (op \in {"resolve-deps", "list-upgradable"} /\ ~log[Len(log)].ok)
                   => result.data = << >> /\ result.exit = 0
             /\ (op = "info" /\ ~log[1].ok) => result.data.none /\ result.exit = 1

C25_Witness ==
    /\ Done("list-upgradable")
    /\ ~log[Len(log)].ok
    /\ result.data = << >>
    /\ ~result.flag

\* the commands of the run of main's own check_thresholds call
LastCheckFailed ==
    \/ ~log[Len(log)].ok
    \/ log[Len(log)].cmd = "ps aux" /\ ~log[Len(log) - 1].ok

\* C26: the session monitor exits 2 when one of its commands (free -m,
\* ps aux) fails, 1 when a threshold is exceeded, and 0 when everything is
\* within limits.
C26_ExitTwoOnCommandError ==
    Done("session-monitor")
        => /\ result.exit \in {0, 1, 2}
           /\ result.exit = 2 <=> LastCheckFailed
           /\ result.exit = 0 <=> (~LastCheckFailed /\ result.success)

\* C27: a release without root privilege deletes no lock file and runs no
\* command, whatever the state of the locks: from its call to its return the
\* lock files and their sidecars are what they were.
C27_UnprivilegedReleaseHasNoEffect ==
    [][(op' = "release-locks" /\ euid' # ROOT_UID)
          => /\ lockExists' = lockExists
             /\ sidecar' = sidecar
             /\ log' = << >>
             /\ pc' = "done"]_vars

C27_Witness ==
    /\ Done("release-locks")
    /\ euid = USER_UID
    /\ Len(stale_files) = 3
    /\ \A p \in LockPaths : lockExists[p]
    /\ log = << >>
    /\ ~result.success

\* the place of a position of install_package and fix_broken_dependencies in
\* the chain Idle, CacheRefreshing, Installing / first repair, Reconfiguring,
\* Retrying, terminal
ChainRank(p) ==
    CASE p = "idle"        -> 0
      [] p = "inst_update" -> 1
      [] p = "inst_run"    -> 2
      [] p = "fix_first"   -> 2
      [] p = "fix_dpkg"    -> 3
      [] p = "fix_retry"   -> 4
      [] OTHER             -> 5
InChain == op \in {"install", "fix-broken"}

\* C28: every install and every fix-broken request reaches a terminal
\* result, and each of its steps moves it forward in the chain: no position
\* of the chain is taken twice by one request.
C28_RequestsTerminateWithoutRevisit ==
    /\ (InChain /\ pc # "done") ~> (InChain /\ pc = "done")
    /\ [][(InChain /\ op' = op /\ log' # log) => ChainRank(pc') > ChainRank(pc)]_vars
    /\ [][(op' \in {"install", "fix-broken"} /\ op' # op) => pc = "idle"]_vars

C28_Witness ==
    /\ Done("fix-broken")
    /\ Len(log) = 3
    /\ ~log[1].ok /\ log[2].ok /\ ~log[3].ok
    /\ ~result.success
    /\ result.exit = 1

\* C29: the commands of a request run one after the other: an install runs
\* apt-get install after the index refresh, if there is one, has returned,
\* and it runs without a refresh only on an instance whose index is already
\* refreshed; fix-broken runs dpkg --configure -a after the failed first
\* attempt and the retry after dpkg --configure -a has returned; each step
\* adds one finished command to those the request has run.
C29_CommandsInOrder ==
    /\ [](op = "install"
            => /\ \A i \in Positions("apt-get update") :
                    \A j \in Positions("apt-get install") : i < j
               /\ (Count("apt-get install") > 0 /\ Count("apt-get update") = 0)
                     => apt_cache_updated)
    /\ [](op = "fix-broken"
            => /\ Len(log) >= 2
                    => /\ log[1].cmd = "apt-get --fix-broken" /\ ~log[1].ok
                       /\ log[2].cmd = "dpkg --configure -a"
               /\ Len(log) >= 3
                    => /\ log[2].ok
                       /\ log[3].cmd = "apt-get --fix-broken"
                       /\ pc = "done")
    /\ [][(op' \in {"install", "fix-broken"} /\ log' # log)
             => /\ Len(log') = Len(log) + 1
                /\ SubSeq(log', 1, Len(log)) = log]_vars

C29_Witness ==
    /\ Done("install")
    /\ Len(log) = 2
    /\ log[1] = Cmd("apt-get update", 0, FALSE)
    /\ log[2].cmd = "apt-get install"
    /\ ~apt_cache_updated

====
